---------------------------- MODULE Spec2Model ----------------------------
(***************************************************************************)
(* Model of the audio analysis scripts of video-bot/scripts:               *)
(*   analyze_audio.py        ("rest")   REST batch job + _extract_results   *)
(*   hume_analyze.py         ("sdk")    SDK batch job + _collect_analysis   *)
(*   speaker_diarization.py  ("diar")   pyannote diarization / fallback     *)
(*   detect_gender.py        ("detect") pitch gender + silence timeline     *)
(*                                                                         *)
(* Time is counted in whole seconds (ticks).  The clock `now` models       *)
(* time.time(); it advances in time.sleep() only: a status request to the  *)
(* job takes no time, as with a stubbed job.                               *)
(***************************************************************************)
EXTENDS Integers, Sequences, FiniteSets, TLC

VARIABLES
    prog,             \* which script runs: "rest", "sdk", "diar", "detect"
    pc,               \* position of the single thread of control
    job,              \* the remote job: the statuses it will report
    now,              \* time.time()
    deadline,         \* local `deadline` of _poll_job / _wait_for_completion
    timeout_seconds,  \* hume_analyze.py: HUME_ANALYZE_TIMEOUT
    poll_seconds,     \* hume_analyze.py: HUME_ANALYZE_POLL_SECONDS
    checks,           \* number of status requests issued so far
    sleeps,           \* number of time.sleep() calls so far
    lastCheckAt,      \* value of `now` at the latest status request
    status,           \* status seen by the latest status request
    exc,              \* exception in flight ("none" when there is none)
    payload,          \* what the provider / the local capability delivered
    duration,         \* length of the audio file in ms (NoTime: unknown)
    idx,              \* loop index into the payload (next item to process)
    speakers,         \* local `speakers` / `speakers_info`: <<[id, gender]>>
    segments,         \* local `segments` (detect_gender.py: `timeline`)
    first_speaker,    \* hume_analyze.py: local `first_speaker`
    transcript_parts, \* hume_analyze.py: local `transcript_parts`
    last_end,         \* detect_gender.py: local `last_end`
    result,           \* the value the function under analysis returned
    debug,            \* analyze_audio.py: local `debug`, as a set of <<key, value>>
    job_id,           \* the id the submit step returned (None: none yet)
    fetches,          \* number of get_job_predictions calls so far
    exit_code,        \* exit status of the process (NoExit while it runs)
    PYANNOTE_AVAILABLE \* speaker_diarization.py: the import of pyannote worked

jobVars == <<job, now, deadline, timeout_seconds, poll_seconds,
             checks, sleeps, lastCheckAt, status>>
normVars == <<payload, duration, idx, speakers, segments, first_speaker,
              transcript_parts, last_end>>

mainVars == <<debug, job_id, fetches, exit_code, PYANNOTE_AVAILABLE>>

vars == <<prog, pc, exc, jobVars, normVars, result, mainVars>>

---------------------------------------------------------------------------
(* Bounds of the model *)

\* longest scripted prefix of non-terminal answers of a job
MaxScript == 3
\* largest HUME_ANALYZE_TIMEOUT tried, in ticks
MaxTimeout == 4
\* largest HUME_ANALYZE_POLL_SECONDS tried, in ticks
MaxPoll == 2
\* most prediction groups in a remote payload
MaxGroups == 2
\* most chunks / entries in a remote payload, over all its groups
MaxEntries == 2
\* most turns the diarization delivers
MaxTurns == 2
\* longest audio given to the silence segmenter, in ms
MaxDuration == 5
\* most pitch values in a pitch track
MaxPitches == 2

---------------------------------------------------------------------------
(* Program constants *)

POLL_INTERVAL_SECONDS == 5
POLL_TIMEOUT_SECONDS == 15 * 60

\* "no value yet" for lastCheckAt / status
NoTime == 0 - 1
NoStatus == "none"

\* Python's None, for a string and for a number
None == "<None>"

\* the shape every returned value is recorded in; `keys` are the keys the
\* returned dict really has
NoResult ==
    [keys |-> {}, speakers |-> <<>>, segments |-> <<>>, error |-> None,
     transcript |-> <<>>, gender |-> None, debug |-> {}]

\* the process has not exited
NoExit == 0 - 1

\* the state of a script's top level before it runs
MainIdle ==
    /\ debug = {}
    /\ job_id = None
    /\ fetches = 0
    /\ exit_code = NoExit

\* the locals of the normalising functions before they run
NormIdle ==
    /\ payload = <<>>
    /\ duration = NoTime
    /\ idx = 0
    /\ speakers = <<>>
    /\ segments = <<>>
    /\ first_speaker = None
    /\ transcript_parts = <<>>
    /\ last_end = 0

---------------------------------------------------------------------------
(* The remote job, as the polling code sees it.  A job answers its first   *)
(* Len(script) status requests from `script` and every later one with      *)
(* `final`.  "ERR" stands for a request that fails in transport            *)
(* (requests raises / raise_for_status raises / the SDK raises ApiError).  *)

RECURSIVE SeqsUpTo(_, _)
SeqsUpTo(S, n) ==
    IF n = 0 THEN {<<>>}
    ELSE LET shorter == SeqsUpTo(S, n - 1)
         IN  shorter \cup {Append(s, x) : s \in {t \in shorter : Len(t) = n - 1}, x \in S}

\* statuses never revert: no PENDING after a RUNNING
Forward(script) ==
    \A i, j \in 1..Len(script) :
        (i < j /\ script[i] = "RUNNING") => script[j] # "PENDING"

JobPlans ==
    { [script |-> s, final |-> f] :
        s \in {t \in SeqsUpTo({"PENDING", "RUNNING", "ERR"}, MaxScript) : Forward(t)},
        f \in {"COMPLETED", "FAILED", "CANCELED", "RUNNING"} }

\* the answer to the (n+1)-th status request
JobStatus(j, n) == IF n < Len(j.script) THEN j.script[n + 1] ELSE j.final

---------------------------------------------------------------------------
(* analyze_audio.py: _poll_job *)

\* variant: COMPLETED is not recognised and the loop polls on
_poll_job_branch_skip_completed(s) ==
    CASE s = "ERR" -> "raise_transport"
      [] s \in {"FAILED", "CANCELED"} -> "raise_failed"
      [] OTHER -> "sleep"

\* variant: FAILED / CANCELED are not treated as terminal
_poll_job_branch_failed_waits(s) ==
    CASE s = "ERR" -> "raise_transport"
      [] s = "COMPLETED" -> "return"
      [] OTHER -> "sleep"

\* what one loop iteration does with the status it read
_poll_job_branch(s) ==
    CASE s = "ERR" -> "raise_transport"
      [] s = "COMPLETED" -> "return"
      [] s \in {"FAILED", "CANCELED"} -> "raise_failed"
      [] OTHER -> "sleep"

\* deadline = time.time() + POLL_TIMEOUT_SECONDS
_poll_job_enter ==
    /\ prog = "rest" /\ pc = "poll_job"
    /\ deadline' = now + POLL_TIMEOUT_SECONDS
    /\ pc' = "poll_loop"
    /\ UNCHANGED mainVars
    /\ UNCHANGED <<prog, job, now, timeout_seconds, poll_seconds, checks, sleeps,
                   lastCheckAt, status, exc, normVars, result>>

\* one iteration of `while time.time() < deadline`
_poll_job_iter ==
    /\ prog = "rest" /\ pc = "poll_loop"
    /\ now < deadline
    /\ LET s == JobStatus(job, checks)
           b == _poll_job_branch(s)
       IN  /\ checks' = checks + 1
           /\ lastCheckAt' = now
           /\ status' = s
           /\ CASE b = "raise_transport" ->
                     /\ exc' = "PollTransport" /\ pc' = "except"
                     /\ UNCHANGED <<now, sleeps>>
                [] b = "return" ->
                     /\ pc' = "extract_results"
                     /\ UNCHANGED <<now, sleeps, exc>>
                [] b = "raise_failed" ->
                     /\ exc' = "JobFailed" /\ pc' = "except"
                     /\ UNCHANGED <<now, sleeps>>
                [] OTHER ->
                     /\ now' = now + POLL_INTERVAL_SECONDS
                     /\ sleeps' = sleeps + 1
                     /\ UNCHANGED <<pc, exc>>
    /\ UNCHANGED mainVars
    /\ UNCHANGED <<prog, job, deadline, timeout_seconds, poll_seconds, normVars, result>>

\* the loop condition fails: raise TimeoutError
_poll_job_timeout ==
    /\ prog = "rest" /\ pc = "poll_loop"
    /\ ~(now < deadline)
    /\ exc' = "JobTimeout" /\ pc' = "except"
    /\ UNCHANGED mainVars
    /\ UNCHANGED <<prog, job, now, deadline, timeout_seconds, poll_seconds,
                   checks, sleeps, lastCheckAt, status, normVars, result>>

---------------------------------------------------------------------------
(* hume_analyze.py: _wait_for_completion *)

\* variant: the deadline is never compared
_wait_for_completion_branch_no_deadline(s, t, dl) ==
    CASE s = "ERR" -> "raise_transport"
      [] s = "COMPLETED" -> "return"
      [] s = "FAILED" -> "raise_failed"
      [] OTHER -> "sleep"

\* variant: a FAILED job is taken for a finished one
_wait_for_completion_branch_failed_returns(s, t, dl) ==
    CASE s = "ERR" -> "raise_transport"
      [] s \in {"COMPLETED", "FAILED"} -> "return"
      [] t >= dl -> "raise_timeout"
      [] OTHER -> "sleep"

\* what one loop iteration does with the status it read, at time t
_wait_for_completion_branch(s, t, dl) ==
    CASE s = "ERR" -> "raise_transport"
      [] s = "COMPLETED" -> "return"
      [] s = "FAILED" -> "raise_failed"
      [] t >= dl -> "raise_timeout"
      [] OTHER -> "sleep"

\* deadline = time.time() + timeout_seconds
_wait_for_completion_enter ==
    /\ prog = "sdk" /\ pc = "wait_for_completion"
    /\ deadline' = now + timeout_seconds
    /\ pc' = "wait_loop"
    /\ UNCHANGED mainVars
    /\ UNCHANGED <<prog, job, now, timeout_seconds, poll_seconds, checks, sleeps,
                   lastCheckAt, status, exc, normVars, result>>

\* one iteration of `while True`
_wait_for_completion_iter ==
    /\ prog = "sdk" /\ pc = "wait_loop"
    /\ LET s == JobStatus(job, checks)
           b == _wait_for_completion_branch(s, now, deadline)
       IN  /\ checks' = checks + 1
           /\ lastCheckAt' = now
           /\ status' = s
           /\ CASE b = "raise_transport" ->
                     /\ exc' = "PollTransport" /\ pc' = "except"
                     /\ UNCHANGED <<now, sleeps>>
                [] b = "return" ->
                     /\ pc' = "get_job_predictions"
                     /\ UNCHANGED <<now, sleeps, exc>>
                [] b = "raise_failed" ->
                     /\ exc' = "JobFailed" /\ pc' = "except"
                     /\ UNCHANGED <<now, sleeps>>
                [] b = "raise_timeout" ->
                     /\ exc' = "JobTimeout" /\ pc' = "except"
                     /\ UNCHANGED <<now, sleeps>>
                [] OTHER ->
                     /\ now' = now + poll_seconds
                     /\ sleeps' = sleeps + 1
                     /\ UNCHANGED <<pc, exc>>
    /\ UNCHANGED mainVars
    /\ UNCHANGED <<prog, job, deadline, timeout_seconds, poll_seconds, normVars, result>>

---------------------------------------------------------------------------
(* Polling on its own: await_completion called on a submitted job *)

InitPoll ==
    /\ prog \in {"rest", "sdk"}
    /\ pc = IF prog = "rest" THEN "poll_job" ELSE "wait_for_completion"
    /\ job \in JobPlans
    /\ now = 0
    /\ deadline = 0
    /\ timeout_seconds \in (IF prog = "rest" THEN {POLL_TIMEOUT_SECONDS} ELSE 0..MaxTimeout)
    /\ poll_seconds \in (IF prog = "rest" THEN {POLL_INTERVAL_SECONDS} ELSE 1..MaxPoll)
    /\ checks = 0
    /\ sleeps = 0
    /\ lastCheckAt = NoTime
    /\ status = NoStatus
    /\ exc = "none"
    /\ NormIdle
    /\ result = NoResult
    /\ MainIdle
    /\ PYANNOTE_AVAILABLE = TRUE

NextPoll ==
    \/ _poll_job_enter
    \/ _poll_job_iter
    \/ _poll_job_timeout
    \/ _wait_for_completion_enter
    \/ _wait_for_completion_iter

SpecPoll == InitPoll /\ [][NextPoll]_vars

\* await_completion is over: it returned or raised
PollEnded == pc \in {"extract_results", "get_job_predictions", "except"}
PollReturned == pc \in {"extract_results", "get_job_predictions"}

---------------------------------------------------------------------------
(* Properties of polling (checked under SpecPoll, where await_completion   *)
(* is entered at time 0, so `now` is the time elapsed since its start)     *)

\* the timeout and the interval in force for the running script
Timeout == IF prog = "rest" THEN POLL_TIMEOUT_SECONDS ELSE timeout_seconds
Poll == IF prog = "rest" THEN POLL_INTERVAL_SECONDS ELSE poll_seconds

\* the job answers RUNNING n times, then COMPLETED
RunningThenCompleted(n) ==
    /\ Len(job.script) = n
    /\ \A i \in 1..n : job.script[i] = "RUNNING"
    /\ job.final = "COMPLETED"

\* the job answers PENDING or RUNNING to every request
NeverCompletes ==
    /\ \A i \in 1..Len(job.script) : job.script[i] \in {"PENDING", "RUNNING"}
    /\ job.final = "RUNNING"

\* the job answers FAILED to the first request
FailsFirst == job.script = <<>> /\ job.final = "FAILED"

\* the job's request fails in transport k times, then it answers COMPLETED
ErrorsThenCompleted(k) ==
    /\ Len(job.script) = k
    /\ \A i \in 1..k : job.script[i] = "ERR"
    /\ job.final = "COMPLETED"

\* C2: a job that reports RUNNING on its first N status checks and COMPLETED
\* on the next, with the timeout covering the N poll intervals, makes
\* await_completion return normally after exactly N+1 status checks; no
\* check is issued after COMPLETED was observed.
C2_RunningNThenCompleted ==
    \A n \in 0..MaxScript :
        (RunningThenCompleted(n) /\ n * Poll < Timeout) =>
            /\ checks <= n + 1
            /\ sleeps <= n
            /\ checks = n + 1 => (PollReturned /\ status = "COMPLETED")
            /\ PollEnded => (PollReturned /\ exc = "none" /\ checks = n + 1 /\ sleeps = n)

C2_Witness ==
    /\ RunningThenCompleted(2) /\ 2 * Poll < Timeout
    /\ PollReturned /\ checks = 3 /\ sleeps = 2

\* C3: when the job never reaches COMPLETED (PENDING / RUNNING on every
\* check), await_completion does not poll forever: the number of checks is
\* bounded by the timeout, it ends with the timeout error and it ends no
\* later than timeout + poll_interval after its start.
C3_NeverCompletesTimesOut ==
    NeverCompletes =>
        /\ now <= Timeout + Poll
        /\ (checks - 1) * Poll <= Timeout + Poll
        /\ PollEnded => (exc = "JobTimeout" /\ ~PollReturned)

C3_Witness ==
    /\ NeverCompletes /\ PollEnded /\ exc = "JobTimeout"
    /\ checks >= 2 /\ now > Timeout

\* C4: when the first status check reports FAILED, await_completion fails
\* with the job-failed error at once: one status check, no sleep, no further
\* poll, whatever remains of the timeout.
C4_FailedFirstIsImmediate ==
    FailsFirst =>
        /\ checks <= 1
        /\ sleeps = 0
        /\ now = 0
        /\ checks = 1 => PollEnded
        /\ PollEnded => (exc = "JobFailed" /\ checks = 1)

C4_Witness ==
    /\ FailsFirst /\ PollEnded /\ exc = "JobFailed" /\ checks = 1
    /\ now < deadline

\* C5: a status check that reports CANCELED ends the polling at that check
\* with the job-failed error, exactly as FAILED does.
C5_CanceledEndsPolling ==
    status = "CANCELED" => (PollEnded /\ exc = "JobFailed")

\* C6: transport errors of status checks are retried: a job whose status
\* check fails k times in transport and then reports COMPLETED before the
\* deadline makes await_completion return normally.
C6_TransportErrorsRetried ==
    \A k \in 0..MaxScript :
        (ErrorsThenCompleted(k) /\ k * Poll < Timeout /\ PollEnded) => PollReturned

---------------------------------------------------------------------------
(* Helpers shared by the normalising functions.  Times are whole           *)
(* milliseconds; a segment's start and end are kept in ms.                 *)

\* the keys of a speakers dict kept as <<[id, gender]>> in insertion order
SpeakerIds(spk) == {spk[i].id : i \in 1..Len(spk)}

\* list.sort(key=start): stable, ascending.  Insert x behind every element
\* whose start is not larger.
SortInsert(s, x) ==
    LET k == Cardinality({i \in 1..Len(s) : s[i].start <= x.start})
    IN  SubSeq(s, 1, k) \o <<x>> \o SubSeq(s, k + 1, Len(s))

RECURSIVE SortByStartFrom(_, _)
SortByStartFrom(done, rest) ==
    IF rest = <<>> THEN done
    ELSE SortByStartFrom(SortInsert(done, Head(rest)), Tail(rest))

\* variant: the list is left in discovery order
SortByStart_unsorted(s) == s

SortByStart(s) == SortByStartFrom(<<>>, s)

\* round(x, 3) of a time given in whole ms: the value itself
round3(ms) == ms

\* variant: the time is stored unrounded
round2_exact(ms) == ms

\* round(x, 2) of a time given in whole ms: the nearest multiple of 10 ms
round2(ms) == ((ms + 5) \div 10) * 10

---------------------------------------------------------------------------
(* analyze_audio.py: _extract_results.  The payload is                     *)
(*   [hasResults, groups]: job["state"]["results"] is non-empty, and the   *)
(*   grouped_predictions of all results, in order (the two outer loops     *)
(*   visit exactly this list);                                             *)
(*   a group is [speaker, track, gender, sex, predictions];                *)
(*   a chunk of predictions is [start, end] (NoTime for a missing time).   *)

_extract_speaker_id(g) ==
    IF g.speaker # None THEN g.speaker
    ELSE IF g.track # None THEN g.track ELSE "unknown"

_extract_gender(g) ==
    IF g.gender # None THEN g.gender
    ELSE IF g.sex # None THEN g.sex ELSE "unknown"

\* variant: every group of a speaker stores its gender again
_extract_add_speaker_overwrite(spk, id, gender) ==
    IF id \in SpeakerIds(spk)
    THEN [i \in 1..Len(spk) |-> IF spk[i].id = id THEN [id |-> id, gender |-> gender]
                                ELSE spk[i]]
    ELSE Append(spk, [id |-> id, gender |-> gender])

\* if speaker_id not in speakers: speakers[speaker_id] = {"gender": gender}
_extract_add_speaker(spk, id, gender) ==
    IF id \in SpeakerIds(spk) THEN spk
    ELSE Append(spk, [id |-> id, gender |-> gender])

\* the segments the inner loop appends for one group
RECURSIVE _extract_chunks(_, _)
_extract_chunks(id, chunks) ==
    IF chunks = <<>> THEN <<>>
    ELSE LET c == Head(chunks)
         IN  IF c.start = NoTime \/ c.end = NoTime
             THEN _extract_chunks(id, Tail(chunks))
             ELSE <<[speaker |-> id, start |-> round3(c.start),
                     end |-> round3(c.end), type |-> "speech"]>>
                  \o _extract_chunks(id, Tail(chunks))

\* results = ... or []; if not results: raise RuntimeError
_extract_results_enter ==
    /\ prog = "rest" /\ pc = "extract_results"
    /\ IF payload.hasResults
       THEN /\ pc' = "extract_loop"
            /\ idx' = 1
            /\ speakers' = <<>>
            /\ segments' = <<>>
            /\ exc' = exc
       ELSE /\ pc' = "except"
            /\ exc' = "MissingResults"
            /\ UNCHANGED <<idx, speakers, segments>>
    /\ UNCHANGED mainVars
    /\ UNCHANGED <<prog, jobVars, payload, duration, first_speaker,
                   transcript_parts, last_end, result>>

\* the body of `for prediction in prosody_predictions`
_extract_results_group ==
    /\ prog = "rest" /\ pc = "extract_loop"
    /\ idx <= Len(payload.groups)
    /\ LET g == payload.groups[idx]
           speaker_id == _extract_speaker_id(g)
       IN  /\ speakers' = _extract_add_speaker(speakers, speaker_id, _extract_gender(g))
           /\ segments' = segments \o _extract_chunks(speaker_id, g.predictions)
    /\ idx' = idx + 1
    /\ UNCHANGED mainVars
    /\ UNCHANGED <<prog, pc, exc, jobVars, payload, duration, first_speaker,
                   transcript_parts, last_end, result>>

\* segments.sort(...); return {"speakers": ..., "segments": ...}
_extract_results_return ==
    /\ prog = "rest" /\ pc = "extract_loop"
    /\ idx > Len(payload.groups)
    /\ result' = [NoResult EXCEPT !.keys = {"speakers", "segments"},
                                  !.speakers = speakers,
                                  !.segments = SortByStart(segments)]
    /\ pc' = "extracted"
    /\ UNCHANGED mainVars
    /\ UNCHANGED <<prog, exc, jobVars, normVars>>

---------------------------------------------------------------------------
(* hume_analyze.py: _collect_analysis.  The payload is                     *)
(*   the grouped_predictions of all usable results, in order (the three    *)
(*   outer loops visit exactly this list);                                 *)
(*   a group is [id, gender, predictions], gender being the value stored   *)
(*   under a gender key somewhere in the group's dump;                     *)
(*   an entry of predictions is [begin, end, text].                        *)

\* speaker_id = getattr(group, "id", None) or "speaker_0"
_collect_speaker_id(g) == IF g.id # None THEN g.id ELSE "speaker_0"

\* start = float(begin or 0.0)
_collect_start(e) == IF e.begin = NoTime \/ e.begin = 0 THEN 0 ELSE e.begin

\* end = float(getattr(time_info, "end", start) or start)
_collect_end(e) == IF e.end = NoTime \/ e.end = 0 THEN _collect_start(e) ELSE e.end

\* text = getattr(entry, "text", "") or ""
_collect_text(e) == IF e.text = None THEN "" ELSE e.text

RECURSIVE _collect_entries(_, _)
_collect_entries(id, entries) ==
    IF entries = <<>> THEN <<>>
    ELSE LET e == Head(entries)
         IN  <<[speaker |-> id, start |-> _collect_start(e), end |-> _collect_end(e),
                type |-> "speech", text |-> _collect_text(e)]>>
             \o _collect_entries(id, Tail(entries))

\* if entry.text: transcript_parts.append(entry.text.strip())
RECURSIVE _collect_texts(_)
_collect_texts(entries) ==
    IF entries = <<>> THEN <<>>
    ELSE (IF _collect_text(Head(entries)) # "" THEN <<_collect_text(Head(entries))>> ELSE <<>>)
         \o _collect_texts(Tail(entries))

\* _infer_primary_gender(raw_dump): the first gender found in the dump
RECURSIVE _infer_primary_gender(_)
_infer_primary_gender(groups) ==
    IF groups = <<>> THEN "unknown"
    ELSE IF Head(groups).gender \in {"male", "female"} THEN Head(groups).gender
    ELSE _infer_primary_gender(Tail(groups))

\* if not segments: segments = [one segment over the whole file]
_collect_default_segments(segs, first, dur) ==
    IF segs # <<>> THEN segs
    ELSE <<[speaker |-> IF first # None THEN first ELSE "speaker_0",
            start |-> 0, end |-> IF dur = NoTime THEN 0 ELSE dur,
            type |-> "speech", text |-> ""]>>

_collect_analysis_enter ==
    /\ prog = "sdk" /\ pc = "collect_analysis"
    /\ pc' = "collect_loop"
    /\ idx' = 1
    /\ segments' = <<>>
    /\ transcript_parts' = <<>>
    /\ first_speaker' = None
    /\ UNCHANGED mainVars
    /\ UNCHANGED <<prog, exc, jobVars, payload, duration, speakers, last_end, result>>

\* the body of `for group in grouped`
_collect_analysis_group ==
    /\ prog = "sdk" /\ pc = "collect_loop"
    /\ idx <= Len(payload)
    /\ LET g == payload[idx]
           speaker_id == _collect_speaker_id(g)
       IN  /\ first_speaker' = IF first_speaker = None THEN speaker_id ELSE first_speaker
           /\ segments' = segments \o _collect_entries(speaker_id, g.predictions)
           /\ transcript_parts' = transcript_parts \o _collect_texts(g.predictions)
    /\ idx' = idx + 1
    /\ UNCHANGED mainVars
    /\ UNCHANGED <<prog, pc, exc, jobVars, payload, duration, speakers, last_end, result>>

\* the code behind the loops, up to the return
_collect_analysis_return ==
    /\ prog = "sdk" /\ pc = "collect_loop"
    /\ idx > Len(payload)
    /\ LET segs == SortByStart(_collect_default_segments(segments, first_speaker, duration))
           primary_speaker == IF first_speaker # None THEN first_speaker ELSE segs[1].speaker
       IN  /\ segments' = segs
           /\ result' = [NoResult EXCEPT
                  !.keys = {"duration", "speakers", "segments", "transcript", "emotions", "raw"},
                  !.speakers = <<[id |-> primary_speaker,
                                  gender |-> _infer_primary_gender(payload)]>>,
                  !.segments = segs,
                  !.transcript = transcript_parts]
    /\ pc' = "collected"
    /\ UNCHANGED mainVars
    /\ UNCHANGED <<prog, exc, jobVars, payload, duration, idx, speakers, first_speaker,
                   transcript_parts, last_end>>

---------------------------------------------------------------------------
(* speaker_diarization.py: detect_gender_from_pitch.  What librosa finds   *)
(* in a slice is given as a pitch track [raises, f0]: raises when slicing  *)
(* or piptrack raises, else f0 is the sequence of pitch values in Hz (0:   *)
(* no pitch there).                                                        *)

RECURSIVE SumSeq(_)
SumSeq(s) == IF s = <<>> THEN 0 ELSE Head(s) + SumSeq(Tail(s))

\* pitches[pitches > 0]
valid_pitches(track) == SelectSeq(track.f0, LAMBDA f : f > 0)

\* np.mean(valid) < 165, on integers: sum < 165 * count
PitchThreshold == 165

\* variant: the comparison is not strict
gender_of_mean_le(valid) ==
    IF SumSeq(valid) <= PitchThreshold * Len(valid) THEN "male" ELSE "female"

gender_of_mean(valid) ==
    IF SumSeq(valid) < PitchThreshold * Len(valid) THEN "male" ELSE "female"

detect_gender_from_pitch(track) ==
    IF track.raises THEN "unknown"
    ELSE IF Len(valid_pitches(track)) = 0 THEN "unknown"
    ELSE gender_of_mean(valid_pitches(track))

---------------------------------------------------------------------------
(* speaker_diarization.py: analyze_with_pyannote, from the loop over the   *)
(* turns on.  The payload is the sequence diarization.itertracks() yields: *)
(* a turn is [speaker, start, end, track], track being the pitch track of  *)
(* the audio between start and end.                                        *)

\* if speaker_id not in speakers_info: speakers_info[speaker_id] = {...}
pyannote_add_speaker(spk, t) ==
    IF t.speaker \in SpeakerIds(spk) THEN spk
    ELSE Append(spk, [id |-> t.speaker, gender |-> detect_gender_from_pitch(t.track)])

\* the body of `for turn, _, speaker in diarization.itertracks(...)`
analyze_with_pyannote_turn ==
    /\ prog = "diar" /\ pc = "pyannote_loop"
    /\ idx <= Len(payload)
    /\ LET t == payload[idx]
       IN  /\ speakers' = pyannote_add_speaker(speakers, t)
           /\ segments' = Append(segments, [speaker |-> t.speaker,
                                            start |-> round2(t.start),
                                            end |-> round2(t.end)])
    /\ idx' = idx + 1
    /\ UNCHANGED mainVars
    /\ UNCHANGED <<prog, pc, exc, jobVars, payload, duration, first_speaker,
                   transcript_parts, last_end, result>>

\* return {"speakers": speakers_info, "segments": segments}
analyze_with_pyannote_return ==
    /\ prog = "diar" /\ pc = "pyannote_loop"
    /\ idx > Len(payload)
    /\ result' = [NoResult EXCEPT !.keys = {"speakers", "segments"},
                                  !.speakers = speakers,
                                  !.segments = segments]
    /\ pc' = "print_result"
    /\ UNCHANGED mainVars
    /\ UNCHANGED <<prog, exc, jobVars, normVars>>

---------------------------------------------------------------------------
(* speaker_diarization.py: fallback_analysis.  duration = NoTime stands    *)
(* for a file AudioSegment.from_wav cannot read; the payload is the pitch  *)
(* track of the whole file.                                                *)

fallback_analysis ==
    /\ prog = "diar" /\ pc = "fallback_analysis"
    /\ IF duration = NoTime
       THEN /\ exc' = "WavRead"
            /\ result' = [NoResult EXCEPT !.keys = {"error", "speakers", "segments"},
                                          !.error = "fallback analysis failed"]
       ELSE /\ exc' = exc
            /\ result' = [NoResult EXCEPT
                   !.keys = {"speakers", "segments"},
                   !.speakers = <<[id |-> "SPEAKER_00",
                                   gender |-> detect_gender_from_pitch(payload)]>>,
                   !.segments = <<[speaker |-> "SPEAKER_00", start |-> 0,
                                   end |-> round2(duration)]>>]
    /\ pc' = "print_result"
    /\ UNCHANGED mainVars
    /\ UNCHANGED <<prog, jobVars, normVars>>

---------------------------------------------------------------------------
(* detect_gender.py: analyze_audio.  The payload is [track, ranges]: the   *)
(* pitch track of the file and the list silence.detect_nonsilent returns,  *)
(* a range being [start_ms, end_ms]; duration is len(audio) in ms.         *)
(* duration = NoTime stands for a file that cannot be read, track =        *)
(* .raises for a pitch extraction that raises.                            *)
(* The timeline is built in `segments`; its times are kept in ms (the code *)
(* divides every one of them by 1000.0 when it stores it).                 *)

\* the intervals one range adds to the timeline
detect_range_items(r, last) ==
    (IF r.start_ms > last
     THEN <<[type |-> "pause", start |-> last, end |-> r.start_ms]>>
     ELSE <<>>)
    \o <<[type |-> "speech", start |-> r.start_ms, end |-> r.end_ms]>>

\* variant: no pause is emitted after the last non-silent range
detect_tail_items_none(last, total) == <<>>

\* if last_end < total_duration_ms: timeline.append(pause)
detect_tail_items(last, total) ==
    IF last < total
    THEN <<[type |-> "pause", start |-> last, end |-> total]>>
    ELSE <<>>

\* librosa.load ... silence.detect_nonsilent; timeline = []; last_end = 0
detect_enter ==
    /\ prog = "detect" /\ pc = "detect_gender"
    /\ IF duration = NoTime \/ payload.track.raises
       THEN /\ result' = [NoResult EXCEPT !.keys = {"gender", "timeline", "error"},
                                          !.gender = "unknown",
                                          !.error = "load failed"]
            /\ pc' = "print_result"
            /\ UNCHANGED <<idx, segments, last_end>>
       ELSE /\ pc' = "timeline_loop"
            /\ idx' = 1
            /\ segments' = <<>>
            /\ last_end' = 0
            /\ result' = result
    /\ UNCHANGED mainVars
    /\ UNCHANGED <<prog, exc, jobVars, payload, duration, speakers, first_speaker,
                   transcript_parts>>

\* the body of `for start_ms, end_ms in segments`
detect_range ==
    /\ prog = "detect" /\ pc = "timeline_loop"
    /\ idx <= Len(payload.ranges)
    /\ LET r == payload.ranges[idx]
       IN  /\ segments' = segments \o detect_range_items(r, last_end)
           /\ last_end' = r.end_ms
    /\ idx' = idx + 1
    /\ UNCHANGED mainVars
    /\ UNCHANGED <<prog, pc, exc, jobVars, payload, duration, speakers, first_speaker,
                   transcript_parts, result>>

\* the trailing pause and the return
detect_return ==
    /\ prog = "detect" /\ pc = "timeline_loop"
    /\ idx > Len(payload.ranges)
    /\ LET timeline == segments \o detect_tail_items(last_end, duration)
       IN  /\ segments' = timeline
           /\ result' = [NoResult EXCEPT
                  !.keys = {"gender", "timeline"},
                  !.gender = (IF Len(valid_pitches(payload.track)) > 0
                              THEN gender_of_mean(valid_pitches(payload.track))
                              ELSE "unknown"),
                  !.segments = timeline]
    /\ pc' = "print_result"
    /\ UNCHANGED mainVars
    /\ UNCHANGED <<prog, exc, jobVars, payload, duration, idx, speakers, first_speaker,
                   transcript_parts, last_end>>

---------------------------------------------------------------------------
(* Inputs of the normalising functions *)

\* sequences of at most g groups [head, predictions] holding at most e
\* predictions in all
RECURSIVE Shaped(_, _, _, _)
Shaped(Heads, Items, g, e) ==
    IF g = 0 THEN {<<>>}
    ELSE {<<>>} \cup
         UNION { { <<[head |-> h, predictions |-> ps]>> \o rest :
                     h \in Heads, rest \in Shaped(Heads, Items, g - 1, e - Len(ps)) } :
                 ps \in SeqsUpTo(Items, e) }

RestHeads ==
    { [speaker |-> k[1], track |-> k[2], gender |-> g[1], sex |-> g[2]] :
        k \in {<<"spk_a", None>>, <<None, "trk_1">>, <<None, None>>},
        g \in {<<None, None>>, <<"male", None>>, <<None, "female">>} }

RestChunks ==
    { [start |-> t[1], end |-> t[2]] :
        t \in {<<NoTime, NoTime>>, <<0, NoTime>>, <<NoTime, 1000>>, <<0, 0>>,
               <<0, 1000>>, <<1000, 0>>, <<1000, 2000>>} }

RestGroupOf(x) ==
    [speaker |-> x.head.speaker, track |-> x.head.track, gender |-> x.head.gender,
     sex |-> x.head.sex, predictions |-> x.predictions]

\* the payloads of at most g groups and e chunks
RestPayloads(g, e) ==
    { [hasResults |-> TRUE, groups |-> [i \in 1..Len(x) |-> RestGroupOf(x[i])]] :
        x \in Shaped(RestHeads, RestChunks, g, e) }
    \cup {[hasResults |-> FALSE, groups |-> <<>>]}

SdkHeads == { [id |-> i, gender |-> g] : i \in {None, "spk_a"}, g \in {None, "female"} }

SdkEntries ==
    { [begin |-> t[1], end |-> t[2], text |-> x] :
        t \in {<<NoTime, NoTime>>, <<1000, NoTime>>, <<1000, 0>>, <<2000, 1000>>,
               <<0, 1000>>},
        x \in {None, "a", "b"} }

SdkGroupOf(x) == [id |-> x.head.id, gender |-> x.head.gender, predictions |-> x.predictions]

\* the payloads of at most g groups and e entries
SdkPayloads(g, e) ==
    { [i \in 1..Len(x) |-> SdkGroupOf(x[i])] :
        x \in Shaped(SdkHeads, SdkEntries, g, e) }

Raising == [raises |-> TRUE, f0 |-> <<>>]
Track(f0) == [raises |-> FALSE, f0 |-> f0]

PitchTracks ==
    {Raising} \cup {Track(f) : f \in SeqsUpTo({0, 100, 164, 165, 166, 230}, MaxPitches)}

DiarTurns ==
    { [speaker |-> sp, start |-> t[1], end |-> t[2], track |-> tr] :
        sp \in {"SPEAKER_00", "SPEAKER_01"},
        t \in {<<0, 1000>>, <<1000, 2004>>, <<2004, 3000>>},
        tr \in {Raising, Track(<<0>>), Track(<<120>>), Track(<<210>>)} }

\* ordered, pairwise disjoint, non-empty ranges inside [lo, d]
RECURSIVE RangeLists(_, _)
RangeLists(lo, d) ==
    {<<>>} \cup
    UNION { { <<[start_ms |-> r[1], end_ms |-> r[2]]>> \o rest : rest \in RangeLists(r[2], d) } :
            r \in {q \in (lo..(d - 1)) \X ((lo + 1)..d) : q[1] < q[2]} }

JobIdle ==
    /\ job = [script |-> <<>>, final |-> "COMPLETED"]
    /\ now = 0
    /\ deadline = 0
    /\ timeout_seconds = 0
    /\ poll_seconds = 1
    /\ checks = 0
    /\ sleeps = 0
    /\ lastCheckAt = NoTime
    /\ status = NoStatus

LocalsIdle ==
    /\ idx = 0
    /\ speakers = <<>>
    /\ segments = <<>>
    /\ first_speaker = None
    /\ transcript_parts = <<>>
    /\ last_end = 0
    /\ result = NoResult
    /\ exc = "none"

---------------------------------------------------------------------------
(* Normalisation of a remote payload on its own: _extract_results and      *)
(* _collect_analysis applied to a payload of a completed job               *)

InitNorm ==
    /\ prog \in {"rest", "sdk"}
    /\ pc = IF prog = "rest" THEN "extract_results" ELSE "collect_analysis"
    /\ payload \in (IF prog = "rest" THEN RestPayloads(MaxGroups, MaxEntries)
                                      ELSE SdkPayloads(MaxGroups, MaxEntries))
    /\ duration \in (IF prog = "rest" THEN {NoTime} ELSE {NoTime, 3000})
    /\ JobIdle
    /\ LocalsIdle
    /\ MainIdle
    /\ PYANNOTE_AVAILABLE = TRUE

NextNorm ==
    \/ _extract_results_enter
    \/ _extract_results_group
    \/ _extract_results_return
    \/ _collect_analysis_enter
    \/ _collect_analysis_group
    \/ _collect_analysis_return

SpecNorm == InitNorm /\ [][NextNorm]_vars

---------------------------------------------------------------------------
(* The local strategies on their own: the turn loop of                     *)
(* analyze_with_pyannote, fallback_analysis, and detect_gender.py          *)

InitLocal ==
    /\ prog \in {"diar", "detect"}
    /\ \/ /\ prog = "diar" /\ pc = "pyannote_loop"
          /\ payload \in SeqsUpTo(DiarTurns, MaxTurns)
          /\ duration = 3000
          /\ idx = 1
       \/ /\ prog = "diar" /\ pc = "fallback_analysis"
          /\ payload \in PitchTracks
          /\ duration \in {NoTime, 0, 1004, 3000}
          /\ idx = 0
       \/ /\ prog = "detect" /\ pc = "detect_gender"
          /\ duration \in {NoTime} \cup 0..MaxDuration
          /\ payload \in { [track |-> tr, ranges |-> rs] :
                             tr \in {Raising, Track(<<>>), Track(<<120>>)},
                             rs \in RangeLists(0, IF duration = NoTime THEN 0 ELSE duration) }
          /\ idx = 0
    /\ JobIdle
    /\ speakers = <<>>
    /\ segments = <<>>
    /\ first_speaker = None
    /\ transcript_parts = <<>>
    /\ last_end = 0
    /\ result = NoResult
    /\ exc = "none"
    /\ MainIdle
    /\ PYANNOTE_AVAILABLE = (pc = "pyannote_loop")

NextLocal ==
    \/ analyze_with_pyannote_turn
    \/ analyze_with_pyannote_return
    \/ fallback_analysis
    \/ detect_enter
    \/ detect_range
    \/ detect_return

SpecLocal == InitLocal /\ [][NextLocal]_vars

---------------------------------------------------------------------------
(* Properties of the returned results *)

\* a normalising function has returned its value
ResultReady == pc \in {"extracted", "collected", "print_result"}

\* the result is an Analysis Result (speakers + segments) without an error
AnalysisOk ==
    /\ ResultReady
    /\ prog \in {"rest", "sdk", "diar"}
    /\ "error" \notin result.keys

\* C7: in every Analysis Result, from every strategy, each speaker id that
\* occurs in a segment is a key of `speakers`, also when the remote payload
\* holds prediction groups of two or more distinct speakers.
C7_SegmentSpeakersAreKeys ==
    AnalysisOk =>
        \A i \in 1..Len(result.segments) :
            result.segments[i].speaker \in SpeakerIds(result.speakers)

\* C8: in every result, from every strategy, `segments` is ordered by
\* `start` ascending, whatever order the turns were delivered in.
C8_SegmentsSortedByStart ==
    AnalysisOk =>
        \A i \in 1..(Len(result.segments) - 1) :
            result.segments[i].start <= result.segments[i + 1].start

\* the intervals of tl are sequential and cover [0, d] exactly
Tiles(tl, d) ==
    IF tl = <<>> THEN d = 0
    ELSE /\ tl[1].start = 0
         /\ tl[Len(tl)].end = d
         /\ \A i \in 1..Len(tl) : tl[i].start <= tl[i].end
         /\ \A i \in 1..(Len(tl) - 1) : tl[i + 1].start = tl[i].end

\* C9: for every list of non-silent ranges (ordered, pairwise disjoint,
\* inside [0, duration]) the timeline the segmenter builds tiles
\* [0, duration] exactly: it starts at 0, every interval starts where the
\* previous one ended, and the last one ends at duration.
C9_TimelineTilesDuration ==
    (prog = "detect" /\ pc = "print_result" /\ "error" \notin result.keys) =>
        Tiles(result.segments, duration)

C9_Witness ==
    /\ prog = "detect" /\ pc = "print_result" /\ "error" \notin result.keys
    /\ Len(payload.ranges) = 2
    /\ Len(result.segments) = 5
    /\ result.segments[1].type = "pause"
    /\ result.segments[5].type = "pause"

\* the payload holds nothing a segment is made of
ZeroExtracted ==
    IF prog = "rest"
    THEN \A i \in 1..Len(payload.groups) :
             _extract_chunks("x", payload.groups[i].predictions) = <<>>
    ELSE \A i \in 1..Len(payload) : payload[i].predictions = <<>>

\* C10: when normalisation extracts zero segments and the file duration is
\* known, `segments` is exactly one `unknown`-speaker speech segment from 0
\* to the duration; a result without an error never has empty `segments`.
C10_ZeroSegmentsYieldWholeFile ==
    (AnalysisOk /\ prog \in {"rest", "sdk"}) =>
        /\ result.segments # <<>>
        /\ (ZeroExtracted /\ duration # NoTime) =>
               /\ Len(result.segments) = 1
               /\ result.segments[1].speaker = "unknown"
               /\ result.segments[1].type = "speech"
               /\ result.segments[1].start = 0
               /\ result.segments[1].end = duration

---------------------------------------------------------------------------
(* The scripts from their top level.  What the environment does at a step  *)
(* (an argument is missing, a variable is unset, a request fails) is       *)
(* chosen when the step runs.                                              *)

JobIds == {"job-1", "job-2"}

\* the jobs a submitted file can become
MainJobPlans == {j \in JobPlans : Len(j.script) <= 1}

\* the payloads a completed job can hold
MainRestPayloads ==
    { [hasResults |-> FALSE, groups |-> <<>>],
      [hasResults |-> TRUE, groups |-> <<>>],
      [hasResults |-> TRUE,
       groups |-> <<[speaker |-> "spk_a", track |-> None, gender |-> "male", sex |-> None,
                     predictions |-> <<[start |-> 0, end |-> 1000]>>]>>] }

MainSdkPayloads ==
    { <<>>,
      <<[id |-> "spk_a", gender |-> "female",
         predictions |-> <<[begin |-> 0, end |-> 1000, text |-> "a"]>>]>> }

MainTurns ==
    { <<>>,
      <<[speaker |-> "SPEAKER_00", start |-> 0, end |-> 1000, track |-> Track(<<120>>)]>> }

\* the dict both analyze_audio.py's handler and speaker_diarization.py
\* build for a failure
ErrorResult(msg, dbgKeys, dbg) ==
    [NoResult EXCEPT !.keys = {"speakers", "segments", "error"} \cup dbgKeys,
                     !.error = msg,
                     !.debug = dbg]

\* "running" program positions are left by exiting
Exit(code) == /\ exit_code' = code /\ pc' = "exit"

---------------------------------------------------------------------------
(* analyze_audio.py: __main__ and analyze_audio *)

\* if len(sys.argv) < 2: usage on stderr, sys.exit(1)
rest_main ==
    /\ prog = "rest" /\ pc = "main"
    /\ \E argv_ok \in BOOLEAN :
        IF argv_ok
        THEN /\ pc' = "analyze_audio" /\ debug' = {} /\ exit_code' = exit_code
        ELSE /\ Exit(1) /\ debug' = debug
    /\ UNCHANGED <<prog, exc, jobVars, normVars, result, job_id, fetches, PYANNOTE_AVAILABLE>>

\* api_key = _env("HUME_API_KEY"); if not path.exists(): raise
analyze_audio_checks ==
    /\ prog = "rest" /\ pc = "analyze_audio"
    /\ \E has_key \in BOOLEAN, exists \in BOOLEAN :
        CASE ~has_key -> /\ exc' = "MissingCredential" /\ pc' = "except"
          [] has_key /\ ~exists -> /\ exc' = "FileNotFound" /\ pc' = "except"
          [] OTHER -> /\ exc' = exc /\ pc' = "submit_job"
    /\ UNCHANGED <<prog, jobVars, normVars, result, mainVars>>

\* job_id = _submit_job(path, api_key); debug["jobId"] = job_id
_submit_job ==
    /\ prog = "rest" /\ pc = "submit_job"
    /\ \E outcome \in {"open_fails", "transport_error", "no_job_id", "ok"} :
        IF outcome = "ok"
        THEN \E id \in JobIds, j \in MainJobPlans, p \in MainRestPayloads :
                /\ job_id' = id
                /\ debug' = debug \cup {<<"jobId", id>>}
                /\ job' = j
                /\ payload' = p
                /\ pc' = "poll_job"
                /\ exc' = exc
        ELSE /\ exc' = (CASE outcome = "open_fails" -> "SubmitOpen"
                          [] outcome = "transport_error" -> "SubmitTransport"
                          [] OTHER -> "SubmitNoJobId")
             /\ pc' = "except"
             /\ UNCHANGED <<job_id, debug, job, payload>>
    /\ UNCHANGED <<prog, now, deadline, timeout_seconds, poll_seconds, checks, sleeps,
                   lastCheckAt, status, duration, idx, speakers, segments, first_speaker,
                   transcript_parts, last_end, result, fetches, exit_code,
                   PYANNOTE_AVAILABLE>>

\* result = _extract_results(job); result["debug"] = debug; return result
analyze_audio_return ==
    /\ prog = "rest" /\ pc = "extracted"
    /\ result' = [result EXCEPT !.keys = @ \cup {"debug"}, !.debug = debug]
    /\ pc' = "print_result"
    /\ UNCHANGED <<prog, exc, jobVars, normVars, mainVars>>

\* variant: the handler returns a fresh, empty debug mapping
analyze_audio_handler_no_debug(e, dbg) == ErrorResult(e, {"traceback", "debug"}, {})

\* variant: the handler lets the exception through
analyze_audio_handler_reraise(e, dbg) == NoResult

\* except Exception as exc: return {speakers: {}, segments: [], error, ...}
analyze_audio_handler(e, dbg) == ErrorResult(e, {"traceback", "debug"}, dbg)

analyze_audio_except ==
    /\ prog = "rest" /\ pc = "except"
    /\ result' = analyze_audio_handler(exc, debug)
    /\ pc' = "print_result"
    /\ UNCHANGED <<prog, exc, jobVars, normVars, mainVars>>

\* print(json.dumps(...)) and the end of the script (all scripts but
\* hume_analyze.py)
main_print ==
    /\ prog \in {"rest", "diar"} /\ pc = "print_result"
    /\ Exit(0)
    /\ UNCHANGED <<prog, exc, jobVars, normVars, result, debug, job_id, fetches,
                   PYANNOTE_AVAILABLE>>

---------------------------------------------------------------------------
(* hume_analyze.py: main and _run *)

\* the class of the exception, as main's except clauses tell them apart
ExcClass(e) ==
    CASE e \in {"MissingCredential", "JobFailed", "JobTimeout"} -> "AnalysisError"
      [] e \in {"SubmitApiError", "PollTransport", "FetchApiError"} -> "ApiError"
      [] OTHER -> "Exception"

\* the two usage checks of main
sdk_main ==
    /\ prog = "sdk" /\ pc = "main"
    /\ \E argv_ok \in BOOLEAN, is_file \in BOOLEAN :
        IF argv_ok /\ is_file
        THEN /\ pc' = "run" /\ UNCHANGED <<result, exit_code>>
        ELSE /\ result' = [NoResult EXCEPT !.keys = {"error"},
                               !.error = IF argv_ok THEN "Audio file not found" ELSE "Usage"]
             /\ Exit(1)
    /\ UNCHANGED <<prog, exc, jobVars, normVars, debug, job_id, fetches, PYANNOTE_AVAILABLE>>

\* api_key = os.getenv("HUME_API_KEY"); if not api_key: raise AnalysisError
_run_key ==
    /\ prog = "sdk" /\ pc = "run"
    /\ \E has_key \in BOOLEAN :
        IF has_key THEN /\ pc' = "start_job" /\ exc' = exc
        ELSE /\ exc' = "MissingCredential" /\ pc' = "except"
    /\ UNCHANGED <<prog, jobVars, normVars, result, mainVars>>

\* job_id = _start_job(client, audio_path); timeout_seconds = float(...);
\* poll_seconds = float(...)
_start_job ==
    /\ prog = "sdk" /\ pc = "start_job"
    /\ \E outcome \in {"api_error", "other_error", "bad_env_number", "ok"} :
        IF outcome = "ok"
        THEN \E id \in JobIds, j \in MainJobPlans, p \in MainSdkPayloads,
                t \in {0, MaxTimeout}, d \in {1, MaxPoll} :
                /\ job_id' = id
                /\ job' = j
                /\ payload' = p
                /\ timeout_seconds' = t
                /\ poll_seconds' = d
                /\ pc' = "wait_for_completion"
                /\ exc' = exc
        ELSE /\ exc' = (CASE outcome = "api_error" -> "SubmitApiError"
                          [] outcome = "other_error" -> "SubmitOpen"
                          [] OTHER -> "BadEnvNumber")
             /\ pc' = "except"
             /\ UNCHANGED <<job_id, job, payload, timeout_seconds, poll_seconds>>
    /\ UNCHANGED <<prog, now, deadline, checks, sleeps, lastCheckAt, status, duration, idx,
                   speakers, segments, first_speaker, transcript_parts, last_end, result,
                   debug, fetches, exit_code, PYANNOTE_AVAILABLE>>

\* predictions = ...get_job_predictions(job_id); duration = _read_duration_seconds(...)
_run_fetch ==
    /\ prog = "sdk" /\ pc = "get_job_predictions"
    /\ fetches' = fetches + 1
    /\ \E ok \in BOOLEAN :
        IF ok THEN /\ pc' = "collect_analysis" /\ exc' = exc
        ELSE /\ exc' = "FetchApiError" /\ pc' = "except"
    /\ UNCHANGED <<prog, jobVars, normVars, result, debug, job_id, exit_code,
                   PYANNOTE_AVAILABLE>>

\* print(json.dumps(analysis)); return 0
sdk_main_print ==
    /\ prog = "sdk" /\ pc = "collected"
    /\ Exit(0)
    /\ UNCHANGED <<prog, exc, jobVars, normVars, result, debug, job_id, fetches,
                   PYANNOTE_AVAILABLE>>

\* the three except clauses of main
sdk_main_except ==
    /\ prog = "sdk" /\ pc = "except"
    /\ LET c == ExcClass(exc)
       IN  /\ result' = [NoResult EXCEPT
                  !.keys = IF c = "AnalysisError" THEN {"error"} ELSE {"error", "details"},
                  !.error = CASE c = "AnalysisError" -> exc
                              [] c = "ApiError" -> "Hume API error"
                              [] OTHER -> "Unexpected failure"]
           /\ Exit(CASE c = "AnalysisError" -> 2 [] c = "ApiError" -> 3 [] OTHER -> 4)
    /\ UNCHANGED <<prog, exc, jobVars, normVars, debug, job_id, fetches, PYANNOTE_AVAILABLE>>

---------------------------------------------------------------------------
(* speaker_diarization.py: main and the start of analyze_with_pyannote *)

\* the usage check, then the choice between the two analyses
diar_main ==
    /\ prog = "diar" /\ pc = "main"
    /\ \E argv_ok \in BOOLEAN :
        IF ~argv_ok
        THEN /\ result' = ErrorResult("Usage", {}, {})
             /\ Exit(1)
             /\ UNCHANGED payload
        ELSE /\ UNCHANGED <<result, exit_code>>
             /\ IF PYANNOTE_AVAILABLE
                THEN /\ pc' = "analyze_with_pyannote" /\ UNCHANGED payload
                ELSE /\ pc' = "fallback_analysis"
                     /\ payload' \in {Raising, Track(<<>>), Track(<<120>>), Track(<<210>>)}
    /\ UNCHANGED <<prog, exc, jobVars, duration, idx, speakers, segments, first_speaker,
                   transcript_parts, last_end, debug, job_id, fetches, PYANNOTE_AVAILABLE>>

\* Pipeline.from_pretrained, AudioSegment.from_wav, pipeline(audio_path),
\* and the except clause for the three
analyze_with_pyannote_start ==
    /\ prog = "diar" /\ pc = "analyze_with_pyannote"
    /\ \E outcome \in {"load_fails", "run_fails", "ok"} :
        IF outcome = "ok" /\ duration # NoTime
        THEN /\ payload' \in MainTurns
             /\ idx' = 1
             /\ speakers' = <<>>
             /\ segments' = <<>>
             /\ pc' = "pyannote_loop"
             /\ UNCHANGED <<result, exc>>
        ELSE /\ exc' = (CASE outcome = "load_fails" -> "PipelineLoad"
                          [] outcome = "run_fails" -> "PipelineRun"
                          [] OTHER -> "WavRead")
             /\ result' = ErrorResult("pyannote analysis failed", {}, {})
             /\ pc' = "print_result"
             /\ UNCHANGED <<payload, idx, speakers, segments>>
    /\ UNCHANGED <<prog, jobVars, duration, first_speaker, transcript_parts, last_end,
                   mainVars>>

---------------------------------------------------------------------------
(* The three scripts from their top level *)

Init ==
    /\ prog \in {"rest", "sdk", "diar"}
    /\ pc = "main"
    /\ exc = "none"
    /\ JobIdle
    /\ payload = <<>>
    /\ duration \in {NoTime, 3000}
    /\ idx = 0
    /\ speakers = <<>>
    /\ segments = <<>>
    /\ first_speaker = None
    /\ transcript_parts = <<>>
    /\ last_end = 0
    /\ result = NoResult
    /\ MainIdle
    /\ PYANNOTE_AVAILABLE \in (IF prog = "diar" THEN BOOLEAN ELSE {TRUE})

Next ==
    \/ rest_main
    \/ analyze_audio_checks
    \/ _submit_job
    \/ _poll_job_enter
    \/ _poll_job_iter
    \/ _poll_job_timeout
    \/ _extract_results_enter
    \/ _extract_results_group
    \/ _extract_results_return
    \/ analyze_audio_return
    \/ analyze_audio_except
    \/ main_print
    \/ sdk_main
    \/ _run_key
    \/ _start_job
    \/ _wait_for_completion_enter
    \/ _wait_for_completion_iter
    \/ _run_fetch
    \/ _collect_analysis_enter
    \/ _collect_analysis_group
    \/ _collect_analysis_return
    \/ sdk_main_print
    \/ sdk_main_except
    \/ diar_main
    \/ analyze_with_pyannote_start
    \/ analyze_with_pyannote_turn
    \/ analyze_with_pyannote_return
    \/ fallback_analysis

Spec == Init /\ [][Next]_vars

---------------------------------------------------------------------------
(* Properties of the scripts from their top level *)

\* C1: whatever stage raises (credential lookup, file check, submit, a
\* poll, result extraction, diarization, fallback), the analysis ends with
\* a result whose `speakers` and `segments` are empty and whose `error` is
\* set; the exception does not escape.
C1_FailureYieldsEmptyResultWithError ==
    (pc = "exit" /\ exc # "none") =>
        /\ {"speakers", "segments", "error"} \subseteq result.keys
        /\ result.speakers = <<>>
        /\ result.segments = <<>>
        /\ result.error # None

\* the script has ended after some stage of the analysis raised
AnalysisFailed == pc = "exit" /\ exc # "none"

\* C11: the entry points exit with a non-zero code only for argument-usage
\* errors found before the analysis starts; every failure during the
\* analysis (missing credential, failed job, polling timeout, provider API
\* error, unexpected exception) is reported in the printed `error` field
\* with exit code 0.
C11_NonZeroExitOnlyForUsage ==
    /\ (pc = "exit" /\ exit_code # 0) => exc = "none"
    /\ AnalysisFailed => (exit_code = 0 /\ result.error # None)

\* C12: when the submit step of analyze_audio fails with a transport error,
\* no status check and no prediction fetch is made, and the returned result
\* has empty `speakers` and `segments`, an `error`, and a `debug` mapping
\* without a `jobId` key.
C12_SubmitTransportError ==
    (prog = "rest" /\ exc = "SubmitTransport") =>
        /\ checks = 0 /\ status = NoStatus
        /\ fetches = 0
        /\ job_id = None
        /\ pc \in {"print_result", "exit"} =>
               /\ {"speakers", "segments", "error", "debug"} \subseteq result.keys
               /\ result.speakers = <<>>
               /\ result.segments = <<>>
               /\ result.error # None
               /\ \A kv \in result.debug : kv[1] # "jobId"

C12_Witness ==
    /\ prog = "rest" /\ exc = "SubmitTransport" /\ pc = "exit"
    /\ result.error = "SubmitTransport" /\ result.debug = {}

\* the diarization model is not present: the import failed, or
\* Pipeline.from_pretrained could not load it
ModelAbsent == ~PYANNOTE_AVAILABLE \/ exc = "PipelineLoad"

\* C13: when the diarization model is not present (the library cannot be
\* imported, or the model cannot be loaded), the analysis of a readable file
\* returns the result of the single-speaker fallback, without an `error`.
C13_ModelAbsentFallsBack ==
    (prog = "diar" /\ pc = "exit" /\ exit_code = 0 /\ ModelAbsent /\ duration # NoTime) =>
        /\ "error" \notin result.keys
        /\ SpeakerIds(result.speakers) = {"SPEAKER_00"}
        /\ Len(result.segments) = 1

---------------------------------------------------------------------------
(* Properties of the fallback and of the transcript *)

\* fallback_analysis has returned for a file it could read
FallbackReturned ==
    /\ prog = "diar" /\ ~PYANNOTE_AVAILABLE
    /\ pc = "print_result"
    /\ duration # NoTime

\* the result names the one speaker SPEAKER_00 and holds one segment of it,
\* starting at 0, and no error
OneSpeakerResult ==
    /\ result.keys = {"speakers", "segments"}
    /\ Len(result.speakers) = 1
    /\ result.speakers[1].id = "SPEAKER_00"
    /\ result.speakers[1].gender \in {"male", "female", "unknown"}
    /\ Len(result.segments) = 1
    /\ result.segments[1].speaker = "SPEAKER_00"
    /\ result.segments[1].start = 0

\* C14 (as the code has it): without the diarization capability, the
\* fallback on a readable file returns exactly the speaker SPEAKER_00, exactly
\* one segment of SPEAKER_00 from 0 to the file duration rounded to 1/100 s,
\* and no `error` field.
C14_FallbackOneSpeakerRounded ==
    FallbackReturned =>
        /\ OneSpeakerResult
        /\ result.segments[1].end % 10 = 0
        /\ result.segments[1].end - duration \in (0 - 5)..5

C14_Witness ==
    /\ FallbackReturned /\ OneSpeakerResult
    /\ duration = 1004 /\ result.segments[1].end = 1000
    /\ result.speakers[1].gender = "female"

\* C14 as stated: ... exactly one segment of SPEAKER_00 from 0 to the full
\* file duration.
C14_FallbackSpansFullDuration ==
    FallbackReturned =>
        /\ OneSpeakerResult
        /\ result.segments[1].end = duration

\* the non-empty texts of the segments, in the order of the segments
RECURSIVE SegmentTexts(_)
SegmentTexts(segs) ==
    IF segs = <<>> THEN <<>>
    ELSE (IF Head(segs).text # "" THEN <<Head(segs).text>> ELSE <<>>)
         \o SegmentTexts(Tail(segs))

\* C15: the `transcript` of a result is the non-empty texts of its segments,
\* joined in the final, sorted order of `segments`, also when the provider
\* delivered the entries in an order other than that of their start times.
C15_TranscriptInSegmentOrder ==
    (prog = "sdk" /\ pc = "collected") =>
        result.transcript = SegmentTexts(result.segments)

---------------------------------------------------------------------------
(* Properties of the pitch classifier *)

\* the class the mean of the positive values of a pitch track falls in
ClassOfTrack(track) ==
    LET valid == SelectSeq(track.f0, LAMBDA f : f > 0)
    IN  IF track.raises \/ valid = <<>> THEN "unknown"
        ELSE IF SumSeq(valid) < PitchThreshold * Len(valid) THEN "male"
        ELSE "female"

\* C16: the pitch classifier is total and never raises: it returns `unknown`
\* when no positive pitch estimate remains or when the extraction raises,
\* `male` when the mean of the positive estimates is strictly below 165 Hz,
\* `female` when it is 165 Hz or above, and nothing else.
C16_PitchClassifierTotal ==
    /\ FallbackReturned =>
           /\ exc = "none"
           /\ result.speakers[1].gender = ClassOfTrack(payload)
    /\ (prog = "detect" /\ pc = "print_result") =>
           result.gender = (IF duration = NoTime THEN "unknown"
                            ELSE ClassOfTrack(payload.track))
    /\ (prog = "diar" /\ PYANNOTE_AVAILABLE) =>
           \A i \in 1..Len(speakers) : speakers[i].gender \in {"male", "female", "unknown"}

\* a mean of exactly 165 Hz is female
C16_Witness ==
    /\ FallbackReturned
    /\ payload = Track(<<164, 166>>)
    /\ result.speakers[1].gender = "female"

---------------------------------------------------------------------------
(* Properties of the order of the remote stages *)

\* C17: in await_completion the deadline is tested before every status
\* request: no status request is issued at or after the deadline, and with a
\* timeout of zero the function fails with the timeout error without a
\* single status request.
C17_DeadlineBeforeEveryCheck ==
    /\ checks > 0 => lastCheckAt < deadline
    /\ (Timeout = 0 /\ PollEnded) => (checks = 0 /\ exc = "JobTimeout")

\* the remote script has entered its normalising function
Normalizing ==
    /\ prog \in {"rest", "sdk"}
    /\ \/ pc \in {"extract_results", "extract_loop", "extracted",
                  "collect_analysis", "collect_loop", "collected"}
       \/ idx > 0

\* C18: within one analysis the remote stages run in the order submit, poll,
\* fetch, normalize: the predictions are fetched at most once and only after
\* a status check saw COMPLETED; when polling ends with a failed job or a
\* timeout, no predictions are fetched and nothing is normalized.
C18_StagesInOrder ==
    /\ checks > 0 => job_id # None
    /\ fetches <= 1
    /\ fetches = 1 => status = "COMPLETED"
    /\ Normalizing =>
           /\ status = "COMPLETED"
           /\ prog = "sdk" => fetches = 1
    /\ exc \in {"JobFailed", "JobTimeout"} =>
           /\ fetches = 0
           /\ ~Normalizing
           /\ result.segments = <<>>

C18_Witness ==
    /\ prog = "sdk" /\ pc = "exit" /\ exit_code = 0
    /\ checks = 2 /\ sleeps = 1
    /\ fetches = 1
    /\ Len(result.segments) = 1

---------------------------------------------------------------------------
(* The two loops that record a speaker when they first meet it, on their   *)
(* own: _extract_results over prediction groups, analyze_with_pyannote     *)
(* over turns                                                              *)

\* a group with no chunk or with one
FirstSeenGroups ==
    { [speaker |-> h.speaker, track |-> h.track, gender |-> h.gender, sex |-> h.sex,
       predictions |-> ps] :
        h \in RestHeads, ps \in {<<>>, <<[start |-> 0, end |-> 1000]>>} }

InitFirstSeen ==
    /\ prog \in {"rest", "diar"}
    /\ \/ /\ prog = "rest" /\ pc = "extract_results"
          /\ payload \in { [hasResults |-> TRUE, groups |-> gs] :
                             gs \in SeqsUpTo(FirstSeenGroups, MaxGroups) }
                         \cup {[hasResults |-> FALSE, groups |-> <<>>]}
          /\ duration = NoTime
          /\ idx = 0
       \/ /\ prog = "diar" /\ pc = "pyannote_loop"
          /\ payload \in SeqsUpTo(DiarTurns, MaxTurns)
          /\ duration = 3000
          /\ idx = 1
    /\ JobIdle
    /\ speakers = <<>>
    /\ segments = <<>>
    /\ first_speaker = None
    /\ transcript_parts = <<>>
    /\ last_end = 0
    /\ result = NoResult
    /\ exc = "none"
    /\ MainIdle
    /\ PYANNOTE_AVAILABLE = TRUE

NextFirstSeen ==
    \/ _extract_results_enter
    \/ _extract_results_group
    \/ _extract_results_return
    \/ analyze_with_pyannote_turn
    \/ analyze_with_pyannote_return

SpecFirstSeen == InitFirstSeen /\ [][NextFirstSeen]_vars

\* the items (groups or turns) the loop runs over, those it is done with,
\* and the speaker id and the gender an item carries
Items == IF prog = "rest" THEN payload.groups ELSE payload
LoopReturned == pc \in {"extracted", "print_result"}
Processed ==
    IF pc \in {"extract_loop", "pyannote_loop"} THEN idx - 1
    ELSE IF LoopReturned THEN Len(Items) ELSE 0
ItemSpeaker(x) == IF prog = "rest" THEN _extract_speaker_id(x) ELSE x.speaker
ItemGender(x) == IF prog = "rest" THEN _extract_gender(x) ELSE ClassOfTrack(x.track)

\* the first of the items that carries the speaker id of item i
FirstOf(i) ==
    CHOOSE j \in 1..i :
        /\ ItemSpeaker(Items[j]) = ItemSpeaker(Items[i])
        /\ \A k \in 1..(j - 1) : ItemSpeaker(Items[k]) # ItemSpeaker(Items[i])

\* the entries `speakers` holds for a speaker id
EntriesOf(id) == {i \in 1..Len(speakers) : speakers[i].id = id}

\* C19: while the turns (or prediction groups) are processed, a speaker's
\* gender is the one computed from the first item that carries the speaker
\* id; later items of the same speaker leave the entry as it is, and a
\* speaker whose first item yields no gender is recorded with `unknown`
\* rather than left out.
C19_GenderFromFirstTurn ==
    /\ \A i \in 1..Processed :
           /\ Cardinality(EntriesOf(ItemSpeaker(Items[i]))) = 1
           /\ \A e \in EntriesOf(ItemSpeaker(Items[i])) :
                  /\ speakers[e].gender = ItemGender(Items[FirstOf(i)])
                  /\ speakers[e].gender \in {"male", "female", "unknown"}
    /\ LoopReturned => result.speakers = speakers

\* two groups of one speaker, the first without a gender, the second with one
C19_Witness ==
    /\ prog = "rest" /\ pc = "extract_loop" /\ idx = 3
    /\ ItemSpeaker(Items[1]) = ItemSpeaker(Items[2])
    /\ Items[1].gender = None /\ Items[1].sex = None
    /\ Items[2].gender = "male"
    /\ speakers = <<[id |-> ItemSpeaker(Items[1]), gender |-> "unknown"]>>

\* C20: every segment of every result has start >= 0 and end >= start, for
\* every pair of times the provider can deliver (a missing end, an end of 0,
\* an end smaller than the start).
C20_SegmentTimesOrdered ==
    AnalysisOk =>
        \A i \in 1..Len(result.segments) :
            /\ result.segments[i].start >= 0
            /\ result.segments[i].end >= result.segments[i].start

---------------------------------------------------------------------------
(* Properties of the debug mapping of analyze_audio.py *)

\* analyze_audio has returned its result (a usage error returns none)
AnalyzeAudioReturned ==
    /\ prog = "rest"
    /\ pc = "print_result" \/ (pc = "exit" /\ exit_code = 0)

\* C21: in every result of analyze_audio.py's analyze_audio, successful or
\* failed, `debug` holds `jobId` if and only if the submit step returned a
\* job id: a failure in polling (failed job, timeout, transport) or in result
\* extraction gives an error result whose debug.jobId is the id of the
\* submitted job, a failure before or in submit gives an empty `debug`.
C21_DebugJobIdIffSubmitted ==
    AnalyzeAudioReturned =>
        /\ "debug" \in result.keys
        /\ job_id = None => result.debug = {}
        /\ job_id # None => result.debug = {<<"jobId", job_id>>}
        /\ exc \in {"MissingCredential", "FileNotFound", "SubmitOpen",
                    "SubmitTransport", "SubmitNoJobId"} =>
               (job_id = None /\ result.error # None)
        /\ exc \in {"PollTransport", "JobFailed", "JobTimeout", "MissingResults"} =>
               (job_id \in JobIds /\ result.error # None)
        /\ exc = "none" => (job_id \in JobIds /\ "error" \notin result.keys)

\* the second job id was returned and its job failed while it was polled
C21_Witness ==
    /\ AnalyzeAudioReturned /\ pc = "exit"
    /\ exc = "JobFailed" /\ checks = 2
    /\ job_id = "job-2"
    /\ result.error = "JobFailed"
    /\ result.debug = {<<"jobId", "job-2">>}

=============================================================================
